---- MODULE Spec2Model ----
(***************************************************************************)
(* Model of src/temp.py: DocumentParser (the section parser, the merged    *)
(* index, the two keyword searches, lookup and listing).                   *)
(*                                                                         *)
(* A Python str is modelled as a sequence of one-character strings, so     *)
(* that split, join, strip, lower, count and the `in` test are computed    *)
(* character by character as Python computes them.  None is modelled as    *)
(* the empty sequence where the code only tests truthiness.                *)
(***************************************************************************)
EXTENDS Integers, Sequences, FiniteSets, TLC

(***************************************************************************)
(* Python str primitives                                                   *)
(***************************************************************************)

\* characters str.strip(), str.split() and the regex class \s treat as blank
Whitespace == {" ", "\t", "\n", "\r", "\f"}

UpperAlphabet == <<"A","B","C","D","E","F","G","H","I","J","K","L","M",
                   "N","O","P","Q","R","S","T","U","V","W","X","Y","Z">>
LowerAlphabet == <<"a","b","c","d","e","f","g","h","i","j","k","l","m",
                   "n","o","p","q","r","s","t","u","v","w","x","y","z">>

LowerChar(c) ==
    IF \E k \in 1..Len(UpperAlphabet) : UpperAlphabet[k] = c
    THEN LowerAlphabet[CHOOSE k \in 1..Len(UpperAlphabet) : UpperAlphabet[k] = c]
    ELSE c

\* str.lower()
Lower(s) == [k \in 1..Len(s) |-> LowerChar(s[k])]

Min(a, b) == IF a < b THEN a ELSE b
Max(a, b) == IF a > b THEN a ELSE b

\* s[a:b] for 0 <= a, 0 <= b (Python clamps both ends to len(s))
Slice(s, a, b) ==
    LET lo == Min(a, Len(s))
        hi == Min(b, Len(s))
    IN  IF hi <= lo THEN <<>> ELSE SubSeq(s, lo + 1, hi)

\* s.startswith(sub, p) with p a 0-based offset
MatchAt(s, sub, p) ==
    /\ p + Len(sub) <= Len(s)
    /\ \A k \in 1..Len(sub) : s[p + k] = sub[k]

\* sub in s
Contains(sub, s) == \E p \in 0..Len(s) : MatchAt(s, sub, p)

RECURSIVE CountFrom(_, _, _)
CountFrom(s, sub, p) ==
    IF p + Len(sub) > Len(s) THEN 0
    ELSE IF MatchAt(s, sub, p)
         THEN 1 + CountFrom(s, sub, p + Max(Len(sub), 1))
         ELSE CountFrom(s, sub, p + 1)

\* a count of every place sub occurs at, overlapping or not
CountOverlapping(s, sub) ==
    Cardinality({p \in 0..Len(s) : MatchAt(s, sub, p)})

\* s.count(sub): non-overlapping occurrences, leftmost first;
\* the empty string is counted once between any two characters and at both ends
Count(s, sub) == CountFrom(s, sub, 0)

RECURSIVE Join(_, _)
\* sep.join(parts)
Join(parts, sep) ==
    IF Len(parts) = 0 THEN <<>>
    ELSE IF Len(parts) = 1 THEN parts[1]
    ELSE parts[1] \o sep \o Join(Tail(parts), sep)

RECURSIVE SplitFrom(_, _, _)
SplitFrom(s, c, cur) ==
    IF Len(s) = 0 THEN <<cur>>
    ELSE IF Head(s) = c THEN <<cur>> \o SplitFrom(Tail(s), c, <<>>)
    ELSE SplitFrom(Tail(s), c, Append(cur, Head(s)))

\* s.split(c) for a one-character separator c; "".split(c) is [""]
Split(s, c) == SplitFrom(s, c, <<>>)

RECURSIVE LStrip(_)
LStrip(s) ==
    IF Len(s) > 0 /\ Head(s) \in Whitespace THEN LStrip(Tail(s)) ELSE s

RECURSIVE RStrip(_)
RStrip(s) ==
    IF Len(s) > 0 /\ s[Len(s)] \in Whitespace
    THEN RStrip(SubSeq(s, 1, Len(s) - 1)) ELSE s

\* s.strip()
Strip(s) == RStrip(LStrip(s))

\* len(s.split()): the number of maximal runs of non-blank characters
WordCount(s) ==
    Cardinality({k \in 1..Len(s) :
        /\ s[k] \notin Whitespace
        /\ (k = 1 \/ s[k - 1] \in Whitespace)})

(***************************************************************************)
(* Module constants and parser state                                       *)
(***************************************************************************)

VARIABLES
    MCP_DOCS_CONTENT,     \* first document (a str), fixed at import
    PYTHON_SDK_CONTENT,   \* second document (a str), fixed at import
    pc,                   \* "parse_mcp", "parse_sdk" (inside __init__) or "ready"
    doc_type,             \* _parse_sections: argument
    lines,                \* _parse_sections: content.split("\n")
    pos,                  \* _parse_sections: index of the line the loop is at
    sections,             \* _parse_sections: the dict under construction
    current_section,      \* _parse_sections: None (<<>>) or the open section's key
    current_content,      \* _parse_sections: lines of the open section
    current_level,        \* _parse_sections: level of the open section
    mcp_sections,         \* DocumentParser.mcp_sections
    sdk_sections,         \* DocumentParser.sdk_sections
    all_sections,         \* DocumentParser.all_sections (the merged index)
    result                \* the last call of a public method and what it returned

vars == <<MCP_DOCS_CONTENT, PYTHON_SDK_CONTENT, pc, doc_type, lines, pos,
          sections, current_section, current_content, current_level,
          mcp_sections, sdk_sections, all_sections, result>>

NL == "\n"

\* "MCP Documentation"
McpDocType == <<"M","C","P"," ","D","o","c","u","m","e","n","t","a","t","i","o","n">>
\* "Python SDK"
SdkDocType == <<"P","y","t","h","o","n"," ","S","D","K">>

\* the bounds of #{1,6} in header_pattern
MinHeaderLevel == 1
MaxHeaderLevel == 6

(***************************************************************************)
(* dict: an insertion-ordered sequence of items [k |-> key, v |-> value]   *)
(***************************************************************************)

HasKey(d, key) == \E n \in 1..Len(d) : d[n].k = key
IndexOfKey(d, key) == CHOOSE n \in 1..Len(d) : d[n].k = key

\* d[key] = value: a new key is appended, an existing key keeps its place
\* in the order and has its value replaced
DictSet(d, key, value) ==
    IF HasKey(d, key)
    THEN [d EXCEPT ![IndexOfKey(d, key)] = [k |-> key, v |-> value]]
    ELSE Append(d, [k |-> key, v |-> value])

\* d.get(key): None is <<>>, a value x is <<x>>
DictGet(d, key) == IF HasKey(d, key) THEN <<d[IndexOfKey(d, key)].v>> ELSE <<>>

RECURSIVE DictMerge(_, _)
\* {**a, **b}
DictMerge(a, b) ==
    IF Len(b) = 0 THEN a
    ELSE DictMerge(DictSet(a, b[1].k, b[1].v), Tail(b))

(***************************************************************************)
(* _parse_sections                                                         *)
(***************************************************************************)

RECURSIVE LeadingRun(_, _)
\* length of the longest prefix of s whose characters are all in S
LeadingRun(s, S) ==
    IF Len(s) > 0 /\ Head(s) \in S THEN 1 + LeadingRun(Tail(s), S) ELSE 0

\* a pattern whose quantifier admits one '#' more: #{1,7}
header_match_seven(line) ==
    LET h    == LeadingRun(line, {"#"})
        rest == SubSeq(line, h + 1, Len(line))
        w    == LeadingRun(rest, Whitespace)
    IN  IF h >= MinHeaderLevel /\ h <= MaxHeaderLevel + 1 /\ w >= 1 /\ Len(rest) >= 2
        THEN <<[g1 |-> SubSeq(line, 1, h),
                g2 |-> IF w < Len(rest)
                       THEN SubSeq(rest, w + 1, Len(rest))
                       ELSE SubSeq(rest, Len(rest), Len(rest))]>>
        ELSE <<>>

\* re.match(r"^(#{1,6})\s+(.+)$", line, re.MULTILINE) on a line that holds no
\* "\n": <<>> when there is no match, else <<[g1, g2]>> with the two groups.
\* #{1,6} must take the whole run of '#', since \s+ must follow it; \s+ is
\* greedy but gives back one blank when nothing else is left for (.+).
header_match(line) ==
    LET h    == LeadingRun(line, {"#"})
        rest == SubSeq(line, h + 1, Len(line))
        w    == LeadingRun(rest, Whitespace)
    IN  IF /\ h >= MinHeaderLevel
           /\ h <= MaxHeaderLevel
           /\ w >= 1
           /\ Len(rest) >= 2
        THEN <<[g1 |-> SubSeq(line, 1, h),
                g2 |-> IF w < Len(rest)
                       THEN SubSeq(rest, w + 1, Len(rest))
                       ELSE SubSeq(rest, Len(rest), Len(rest))]>>
        ELSE <<>>

\* f"{doc_type}: {title}"
QualifiedName(dt, title) == dt \o <<":", " ">> \o title

\* the record stored when a section is closed (lines 55-61 and 75-81)
SectionRecord(cur_section, cur_content, cur_level, dt) ==
    [title      |-> cur_section,
     content    |-> Strip(Join(cur_content, <<NL>>)),
     level      |-> cur_level,
     doc_type   |-> dt,
     word_count |-> WordCount(Join(cur_content, <<NL>>))]

\* "if current_section: sections[current_section] = {...}"
SaveSection(secs, cur_section, cur_content, cur_level, dt) ==
    IF cur_section # <<>>
    THEN DictSet(secs, cur_section,
                 SectionRecord(cur_section, cur_content, cur_level, dt))
    ELSE secs

\* one iteration of "for line in lines"
ParseLine ==
    /\ pc \in {"parse_mcp", "parse_sdk"}
    /\ pos <= Len(lines)
    /\ LET line == lines[pos]
           m    == header_match(line)
       IN  IF m # <<>>
           THEN /\ sections' = SaveSection(sections, current_section,
                                           current_content, current_level, doc_type)
                /\ current_section' = QualifiedName(doc_type, Strip(m[1].g2))
                /\ current_content' = <<line>>
                /\ current_level' = Len(m[1].g1)
           ELSE /\ current_content' = IF current_section # <<>>
                                      THEN Append(current_content, line)
                                      ELSE current_content
                /\ UNCHANGED <<sections, current_section, current_level>>
    /\ pos' = pos + 1
    /\ UNCHANGED <<MCP_DOCS_CONTENT, PYTHON_SDK_CONTENT, pc, doc_type, lines,
                   mcp_sections, sdk_sections, all_sections, result>>

\* end of the first _parse_sections call: the last section is saved, the
\* dict is bound to mcp_sections, and the second call starts
ParseReturnMcp ==
    /\ pc = "parse_mcp"
    /\ pos > Len(lines)
    /\ mcp_sections' = SaveSection(sections, current_section,
                                   current_content, current_level, doc_type)
    /\ pc' = "parse_sdk"
    /\ doc_type' = SdkDocType
    /\ lines' = Split(PYTHON_SDK_CONTENT, NL)
    /\ pos' = 1
    /\ sections' = <<>>
    /\ current_section' = <<>>
    /\ current_content' = <<>>
    /\ current_level' = 0
    /\ UNCHANGED <<MCP_DOCS_CONTENT, PYTHON_SDK_CONTENT, sdk_sections,
                   all_sections, result>>

\* end of the second _parse_sections call and of __init__: the merge
ParseReturnSdk ==
    /\ pc = "parse_sdk"
    /\ pos > Len(lines)
    /\ LET parsed == SaveSection(sections, current_section,
                                 current_content, current_level, doc_type)
       IN  /\ sdk_sections' = parsed
           /\ all_sections' = DictMerge(mcp_sections, parsed)
    /\ pc' = "ready"
    /\ sections' = <<>>
    /\ current_section' = <<>>
    /\ current_content' = <<>>
    /\ current_level' = 0
    /\ UNCHANGED <<MCP_DOCS_CONTENT, PYTHON_SDK_CONTENT, doc_type, lines, pos,
                   mcp_sections, result>>

(***************************************************************************)
(* sorted(): CPython's list sort is stable; with reverse=True the list is  *)
(* reversed, sorted stably in ascending order and reversed again, so equal *)
(* keys keep their original order in both directions.  The elements are    *)
(* decorated as [key |-> integer, item |-> element].                       *)
(***************************************************************************)

Reverse(s) == [n \in 1..Len(s) |-> s[Len(s) + 1 - n]]

\* x goes after every element whose key is <= its own
InsertByKey(sorted, x) ==
    LET n == Cardinality({m \in 1..Len(sorted) : sorted[m].key <= x.key})
    IN  SubSeq(sorted, 1, n) \o <<x>> \o SubSeq(sorted, n + 1, Len(sorted))

RECURSIVE SortAscending(_)
SortAscending(s) ==
    IF Len(s) = 0 THEN <<>>
    ELSE InsertByKey(SortAscending(SubSeq(s, 1, Len(s) - 1)), s[Len(s)])

Undecorate(s) == [n \in 1..Len(s) |-> s[n].item]

\* sorted(items, key=...)
Sorted(decorated) == Undecorate(SortAscending(decorated))

\* sorted(items, key=...)[::-1]: equal keys come out in reverse order
SortedThenReversed(decorated) == Undecorate(Reverse(SortAscending(decorated)))

\* sorted(items, key=..., reverse=True)
SortedReverse(decorated) == Undecorate(Reverse(SortAscending(Reverse(decorated))))

(***************************************************************************)
(* search_by_section_name                                                  *)
(***************************************************************************)

\* content[:200] + "..." if len(content) > 200 else content
PreviewLimit == 200

Preview(content) ==
    IF Len(content) > PreviewLimit
    THEN Slice(content, 0, PreviewLimit) \o <<".", ".", ".">>
    ELSE content

\* a test that lowercases whatever the flag says
NameMatchesFolded(section_name, keyword, case_sensitive) ==
    Contains(Lower(keyword), Lower(section_name))

\* the test of line 95, for one item of the index
NameMatches(section_name, keyword, case_sensitive) ==
    LET search_keyword == IF case_sensitive THEN keyword ELSE Lower(keyword)
        search_name    == IF case_sensitive THEN section_name ELSE Lower(section_name)
    IN  Contains(search_keyword, search_name)

NameResult(section_name, section_data) ==
    [section_name |-> section_name,
     doc_type     |-> section_data.doc_type,
     level        |-> section_data.level,
     word_count   |-> section_data.word_count,
     preview      |-> Preview(section_data.content)]

RECURSIVE NameResults(_, _, _)
\* the loop of lines 92-108: results in the order of all_sections.items()
NameResults(index, keyword, case_sensitive) ==
    IF Len(index) = 0 THEN <<>>
    ELSE (IF NameMatches(index[1].k, keyword, case_sensitive)
          THEN <<NameResult(index[1].k, index[1].v)>>
          ELSE <<>>)
         \o NameResults(Tail(index), keyword, case_sensitive)

search_by_section_name(index, keyword, case_sensitive) ==
    LET results == NameResults(index, keyword, case_sensitive)
    IN  Sorted([n \in 1..Len(results) |->
                  [key |-> results[n].level, item |-> results[n]]])

(***************************************************************************)
(* search_by_content_text                                                  *)
(***************************************************************************)

\* matching_lines[:10]
ContextLimit == 10

\* a window that stops at the matching line
ContextWindowShort(content_lines, i) ==
    Slice(content_lines, Max(0, i - 1), Min(Len(content_lines), i + 1))

\* lines 135-137: the line before, the matching line i (0-based) and the
\* line after, as far as they exist
ContextWindow(content_lines, i) ==
    LET context_start == Max(0, i - 1)
        context_end   == Min(Len(content_lines), i + 2)
    IN  Slice(content_lines, context_start, context_end)

RECURSIVE MatchingLines(_, _, _, _)
\* the loop of lines 131-138 from line index i (0-based) on
MatchingLines(content_lines, search_keyword, case_sensitive, i) ==
    IF i >= Len(content_lines) THEN <<>>
    ELSE LET line        == content_lines[i + 1]
             search_line == IF case_sensitive THEN line ELSE Lower(line)
         IN  (IF Contains(search_keyword, search_line)
              THEN ContextWindow(content_lines, i)
              ELSE <<>>)
             \o MatchingLines(content_lines, search_keyword, case_sensitive, i + 1)

ContentResult(section_name, section_data, search_keyword, case_sensitive) ==
    LET search_content == IF case_sensitive THEN section_data.content
                          ELSE Lower(section_data.content)
        content_lines  == Split(section_data.content, NL)
        matching_lines == MatchingLines(content_lines, search_keyword,
                                        case_sensitive, 0)
    IN  [section_name     |-> section_name,
         doc_type         |-> section_data.doc_type,
         level            |-> section_data.level,
         word_count       |-> section_data.word_count,
         matching_context |-> Join(Slice(matching_lines, 0, ContextLimit), <<NL>>),
         match_count      |-> Count(search_content, search_keyword)]

\* the test of line 126, for one item of the index
ContentMatches(section_data, search_keyword, case_sensitive) ==
    Contains(search_keyword,
             IF case_sensitive THEN section_data.content
             ELSE Lower(section_data.content))

RECURSIVE ContentResults(_, _, _)
\* the loop of lines 119-151: results in the order of all_sections.items()
ContentResults(index, search_keyword, case_sensitive) ==
    IF Len(index) = 0 THEN <<>>
    ELSE (IF ContentMatches(index[1].v, search_keyword, case_sensitive)
          THEN <<ContentResult(index[1].k, index[1].v, search_keyword, case_sensitive)>>
          ELSE <<>>)
         \o ContentResults(Tail(index), search_keyword, case_sensitive)

search_by_content_text(index, keyword, case_sensitive) ==
    LET search_keyword == IF case_sensitive THEN keyword ELSE Lower(keyword)
        results == ContentResults(index, search_keyword, case_sensitive)
    IN  SortedReverse([n \in 1..Len(results) |->
                         [key |-> results[n].match_count, item |-> results[n]]])

(***************************************************************************)
(* get_section_content, get_section_list                                   *)
(***************************************************************************)

\* a lookup that ignores case
get_section_content_folded(index, section_name) ==
    IF \E n \in 1..Len(index) : Lower(index[n].k) = Lower(section_name)
    THEN <<index[CHOOSE n \in 1..Len(index) : Lower(index[n].k) = Lower(section_name)].v>>
    ELSE <<>>

get_section_content(index, section_name) == DictGet(index, section_name)

get_section_list(index) ==
    [n \in 1..Len(index) |->
        [section_name |-> index[n].k,
         doc_type     |-> index[n].v.doc_type,
         level        |-> index[n].v.level,
         word_count   |-> index[n].v.word_count]]

(***************************************************************************)
(* Inputs: the two documents and the arguments of the public methods       *)
(***************************************************************************)

\* lines a document of the parser family is built from
ParseLines ==
    { <<"#", " ", "x">>,                             \* "# x"
      <<"#", "#", "\t", "x", " ">>,                  \* "##\tx ": the same title, level 2
      <<"#", "x">>,                                  \* "#x": no blank after the '#'
      <<"#", "#", "#", "#", "#", "#", "#", " ", "x">>, \* seven '#'
      <<"#", " ", " ">>,                             \* "#  ": a header with an empty title
      <<>>,                                          \* a blank line
      <<"x", " ", "X">> }                            \* "x X": body text

\* lines a document of the search family is built from
SearchLines ==
    { <<"#", " ", "x">>,                             \* "# x"
      <<"#", "#", " ", "X">>,                        \* "## X"
      <<"x", "x", "x">>,                             \* "xxx"
      <<>> }

\* body lines of a document of the context family, which is one section
ContextLines ==
    { <<"x">>, <<"y">> }

MaxLinesParse == 2
MaxLinesSearch == 2
MaxLinesContext == 6

\* the documents of at most n lines over a set of lines, as strings
Documents(lineSet, n) ==
    { Join(ls, <<NL>>) : ls \in UNION { [1..m -> lineSet] : m \in 0..n } }

\* second documents: none, one section, and three sections of which two
\* repeat the first family's titles
SecondDocuments ==
    { <<>>,
      <<"#", " ", "x">>,
      <<"#", "#", " ", "X", NL, "x", "x", "x", NL, "#", " ", "x", NL, "#", " ", "y">> }

\* the documents that are the header "# x" and at most n body lines
OneSectionDocuments(lineSet, n) ==
    { Join(<<<<"#", " ", "x">>>> \o ls, <<NL>>) :
        ls \in UNION { [1..m -> lineSet] : m \in 0..n } }

Keywords ==
    { <<>>, <<"x">>, <<"X">>, <<"x", "x">>, <<NL>>, <<"m", "c", "p">> }

\* names asked of get_section_content: every key, its lowercase form, its
\* form without the document-type prefix, and a name no document produces
Unqualified(key) ==
    IF MatchAt(key, McpDocType \o <<":", " ">>, 0)
    THEN SubSeq(key, Len(McpDocType) + 3, Len(key))
    ELSE SubSeq(key, Len(SdkDocType) + 3, Len(key))

LookupNames(index) ==
    UNION { {index[n].k, Lower(index[n].k), Unqualified(index[n].k)} : n \in 1..Len(index) }
    \cup { <<"?">> }

NoResult == [op |-> "none"]

(***************************************************************************)
(* Initial states: import time, DocumentParser.__init__ entering the first *)
(* _parse_sections call                                                    *)
(***************************************************************************)

InitWith(firstDocs, secondDocs) ==
    /\ MCP_DOCS_CONTENT \in firstDocs
    /\ PYTHON_SDK_CONTENT \in secondDocs
    /\ pc = "parse_mcp"
    /\ doc_type = McpDocType
    /\ lines = Split(MCP_DOCS_CONTENT, NL)
    /\ pos = 1
    /\ sections = <<>>
    /\ current_section = <<>>
    /\ current_content = <<>>
    /\ current_level = 0
    /\ mcp_sections = <<>>
    /\ sdk_sections = <<>>
    /\ all_sections = <<>>
    /\ result = NoResult

Init == InitWith(Documents(ParseLines, MaxLinesParse), {<<"#", " ", "x">>})

InitSearch == InitWith(Documents(SearchLines, MaxLinesSearch), SecondDocuments)

InitContext == InitWith(OneSectionDocuments(ContextLines, MaxLinesContext), {<<>>})

(***************************************************************************)
(* The public methods, callable once the module-level doc_parser exists    *)
(***************************************************************************)

Frame == UNCHANGED <<MCP_DOCS_CONTENT, PYTHON_SDK_CONTENT, pc, doc_type, lines, pos,
                     sections, current_section, current_content, current_level,
                     mcp_sections, sdk_sections, all_sections>>

SearchBySectionName ==
    /\ pc = "ready"
    /\ \E keyword \in Keywords, case_sensitive \in BOOLEAN :
         result' = [op |-> "search_by_section_name",
                    keyword |-> keyword,
                    case_sensitive |-> case_sensitive,
                    value |-> search_by_section_name(all_sections, keyword, case_sensitive)]
    /\ Frame

SearchByContentText ==
    /\ pc = "ready"
    /\ \E keyword \in Keywords, case_sensitive \in BOOLEAN :
         result' = [op |-> "search_by_content_text",
                    keyword |-> keyword,
                    case_sensitive |-> case_sensitive,
                    value |-> search_by_content_text(all_sections, keyword, case_sensitive)]
    /\ Frame

\* a lookup that takes the section out of the index: all_sections.pop(name, None)
GetSectionContentPop ==
    /\ pc = "ready"
    /\ \E section_name \in LookupNames(all_sections) :
         /\ result' = [op |-> "get_section_content",
                       section_name |-> section_name,
                       value |-> get_section_content(all_sections, section_name)]
         /\ all_sections' = SelectSeq(all_sections, LAMBDA it : it.k # section_name)
    /\ UNCHANGED <<MCP_DOCS_CONTENT, PYTHON_SDK_CONTENT, pc, doc_type, lines, pos,
                   sections, current_section, current_content, current_level,
                   mcp_sections, sdk_sections>>

GetSectionContent ==
    /\ pc = "ready"
    /\ \E section_name \in LookupNames(all_sections) :
         result' = [op |-> "get_section_content",
                    section_name |-> section_name,
                    value |-> get_section_content(all_sections, section_name)]
    /\ Frame

GetSectionList ==
    /\ pc = "ready"
    /\ result' = [op |-> "get_section_list", value |-> get_section_list(all_sections)]
    /\ Frame

Next ==
    \/ ParseLine
    \/ ParseReturnMcp
    \/ ParseReturnSdk
    \/ SearchBySectionName
    \/ SearchByContentText
    \/ GetSectionContent
    \/ GetSectionList

Spec == Init /\ [][Next]_vars

SpecSearch == InitSearch /\ [][Next]_vars

SpecContext == InitContext /\ [][Next]_vars

(***************************************************************************)
(* Properties                                                              *)
(***************************************************************************)

\* sub occurs in s at the 1-based position p
OccursAt(s, sub, p) ==
    /\ p >= 1
    /\ p + Len(sub) - 1 <= Len(s)
    /\ SubSeq(s, p, p + Len(sub) - 1) = sub

Occurs(s, sub) == \E p \in 1..(Len(s) + 1) : OccursAt(s, sub, p)

\* the number of '#' a string starts with
LeadingHashes(s) ==
    Cardinality({n \in 1..Len(s) : \A m \in 1..n : s[m] = "#"})

\* the header lines of a document, by 1-based line number
HeaderLineNumbers(ls) == {n \in 1..Len(ls) : header_match(ls[n]) # <<>>}

NthHeader(ls, j) ==
    CHOOSE h \in HeaderLineNumbers(ls) :
        Cardinality({g \in HeaderLineNumbers(ls) : g < h}) = j - 1

\* the last line of the run of lines that the header at line h starts
LastLineOf(ls, h) ==
    IF \E g \in HeaderLineNumbers(ls) : g > h
    THEN (CHOOSE g \in HeaderLineNumbers(ls) :
            g > h /\ \A f \in HeaderLineNumbers(ls) : f > h => g <= f) - 1
    ELSE Len(ls)

\* the document from its first header on, cut at every header line, each
\* piece joined and trimmed
TrimmedPieces(document) ==
    LET ls == Split(document, NL)
    IN  [j \in 1..Cardinality(HeaderLineNumbers(ls)) |->
            Strip(Join(SubSeq(ls, NthHeader(ls, j), LastLineOf(ls, NthHeader(ls, j))),
                       <<NL>>))]

Contents(d) == [n \in 1..Len(d) |-> d[n].v.content]

\* C1: the contents of the sections _parse_sections returns, taken in the
\* order of the returned dict, are the pieces of the document from its first
\* header line on (one piece per header line, each trimmed), so that joining
\* them gives the document back and no header line or body line is lost;
\* this is stated for every document, also one that repeats a title.
C1_RoundTrip ==
    /\ pc # "parse_mcp" => Contents(mcp_sections) = TrimmedPieces(MCP_DOCS_CONTENT)
    /\ pc = "ready" => Contents(sdk_sections) = TrimmedPieces(PYTHON_SDK_CONTENT)

\* C2: the title field of every section record is the header text without the
\* document type, so that the key it is stored under is
\* doc_type + ": " + title.
C2_TitleUnqualified ==
    pc = "ready" =>
        \A n \in 1..Len(all_sections) :
            all_sections[n].k =
                QualifiedName(all_sections[n].v.doc_type, all_sections[n].v.title)

\* the keyword and a text as the search compares them
Folded(text, case_sensitive) == IF case_sensitive THEN text ELSE Lower(text)

\* the position of the section a result names, in the order of the index
PlaceOf(section_name) ==
    CHOOSE n \in 1..Len(all_sections) : all_sections[n].k = section_name

IsNameSearch == pc = "ready" /\ result.op = "search_by_section_name"
IsContentSearch == pc = "ready" /\ result.op = "search_by_content_text"

\* C3: search_by_section_name returns one result for each section whose
\* qualified name contains the keyword (both lowercased unless case_sensitive)
\* and none for any other, in ascending order of level with equal levels in
\* the order of the index; the empty keyword returns every section.
C3_NameSearch ==
    IsNameSearch =>
        LET v  == result.value
            kw == Folded(result.keyword, result.case_sensitive)
        IN  /\ \A n \in 1..Len(all_sections) :
                  Cardinality({m \in 1..Len(v) :
                                  /\ v[m].section_name = all_sections[n].k
                                  /\ v[m].level = all_sections[n].v.level}) =
                      IF Occurs(Folded(all_sections[n].k, result.case_sensitive), kw)
                      THEN 1 ELSE 0
            /\ \A m \in 1..Len(v) : HasKey(all_sections, v[m].section_name)
            /\ \A a, b \in 1..Len(v) :
                  a < b =>
                      /\ v[a].level <= v[b].level
                      /\ v[a].level = v[b].level =>
                             PlaceOf(v[a].section_name) < PlaceOf(v[b].section_name)
            /\ result.keyword = <<>> => Len(v) = Len(all_sections)

\* a search by name that left a section out and whose results had to be
\* reordered by level, with two results of one level
C3_Witness ==
    /\ IsNameSearch
    /\ Len(result.value) >= 3
    /\ Len(result.value) < Len(all_sections)
    /\ \E a, b \in 1..Len(result.value) :
          a < b /\ PlaceOf(result.value[a].section_name) > PlaceOf(result.value[b].section_name)
    /\ \E a, b \in 1..Len(result.value) :
          a < b /\ result.value[a].level = result.value[b].level

\* C4: the results of search_by_content_text are in descending order of
\* match_count, and results of equal match_count are in the order of the index
\* (sections of the first document before those of the second).
C4_ContentOrder ==
    IsContentSearch =>
        LET v == result.value
        IN  \A a, b \in 1..Len(v) :
               a < b =>
                   /\ v[a].match_count >= v[b].match_count
                   /\ v[a].match_count = v[b].match_count =>
                          /\ PlaceOf(v[a].section_name) < PlaceOf(v[b].section_name)
                          /\ v[a].doc_type = SdkDocType => v[b].doc_type = SdkDocType

\* a content search that moved a later section ahead of an earlier one and
\* kept two sections of equal count, one of each document, in index order
C4_Witness ==
    /\ IsContentSearch
    /\ \E a, b \in 1..Len(result.value) :
          /\ a < b
          /\ result.value[a].match_count > result.value[b].match_count
          /\ PlaceOf(result.value[a].section_name) > PlaceOf(result.value[b].section_name)
    /\ \E a, b \in 1..Len(result.value) :
          /\ a < b
          /\ result.value[a].match_count = result.value[b].match_count
          /\ result.value[a].doc_type = McpDocType
          /\ result.value[b].doc_type = SdkDocType

\* the 1-based positions at which sub occurs in s
OccurrenceStarts(s, sub) == {p \in 1..Len(s) : OccursAt(s, sub, p)}

Least(S) == CHOOSE p \in S : \A q \in S : p <= q

RECURSIVE NonOverlapping(_, _, _)
\* how many occurrences a scan from position from on picks, taking the
\* leftmost occurrence each time and resuming after its last character
NonOverlapping(starts, width, from) ==
    LET ahead == {p \in starts : p >= from}
    IN  IF ahead = {} THEN 0
        ELSE 1 + NonOverlapping(starts, width, Least(ahead) + width)

\* C5: match_count is the number of non-overlapping occurrences (leftmost
\* first) of the keyword in the whole content of the section, both as the
\* search compares them (lowercased unless case_sensitive), occurrences on one
\* line counted one by one; for the empty keyword it is the length of that
\* content plus one.
C5_MatchCount ==
    IsContentSearch =>
        \A m \in 1..Len(result.value) :
            LET r    == result.value[m]
                text == Folded(all_sections[PlaceOf(r.section_name)].v.content,
                               result.case_sensitive)
                kw   == Folded(result.keyword, result.case_sensitive)
            IN  /\ HasKey(all_sections, r.section_name)
                /\ r.match_count =
                      IF kw = <<>> THEN Len(text) + 1
                      ELSE NonOverlapping(OccurrenceStarts(text, kw), Len(kw), 1)

\* a count that is smaller than the number of places the keyword occurs at,
\* because occurrences overlap
C5_Witness ==
    /\ IsContentSearch
    /\ result.keyword = <<"x", "x">>
    /\ \E m \in 1..Len(result.value) :
          LET r    == result.value[m]
              text == Folded(all_sections[PlaceOf(r.section_name)].v.content,
                             result.case_sensitive)
          IN  /\ r.match_count >= 1
              /\ r.match_count < Cardinality(OccurrenceStarts(text, result.keyword))

RECURSIVE Windows(_, _, _, _)
\* the windows of the matching lines among the first n lines, one after the
\* other: for line i (1-based) the lines i-1..i+1 that exist
Windows(ls, kw, case_sensitive, n) ==
    IF n = 0 THEN <<>>
    ELSE Windows(ls, kw, case_sensitive, n - 1)
         \o (IF Occurs(Folded(ls[n], case_sensitive), kw)
             THEN SubSeq(ls, Max(1, n - 1), Min(Len(ls), n + 1))
             ELSE <<>>)

FirstLines(ls, n) == SubSeq(ls, 1, Min(n, Len(ls)))

\* the windows of all matching lines of the section a result names
WindowsOf(r) ==
    LET ls == Split(all_sections[PlaceOf(r.section_name)].v.content, NL)
    IN  Windows(ls, Folded(result.keyword, result.case_sensitive),
                result.case_sensitive, Len(ls))

\* C6: matching_context is the first 10 lines of the windows (line before,
\* matching line, line after, as far as they exist) of all lines of the
\* section's content that contain the keyword, in line order and with nothing
\* removed where windows overlap.
C6_MatchingContext ==
    IsContentSearch =>
        \A m \in 1..Len(result.value) :
            /\ HasKey(all_sections, result.value[m].section_name)
            /\ result.value[m].matching_context =
                   Join(FirstLines(WindowsOf(result.value[m]), 10), <<NL>>)

\* a result whose windows overlap, hold a line that does not match and are
\* cut at the tenth line
C6_Witness ==
    /\ IsContentSearch
    /\ result.keyword = <<"x">>
    /\ \E m \in 1..Len(result.value) :
          LET w == WindowsOf(result.value[m])
          IN  /\ Len(w) > 10
              /\ \E n \in 1..10 : w[n] = <<"y">>
              /\ Len(Split(result.value[m].matching_context, NL)) = 10

\* C7: once the DocumentParser is constructed, no call of get_section_list,
\* get_section_content, search_by_section_name or search_by_content_text
\* changes the merged index: its keys, their order and every record stay as
\* they were.
C7_IndexFrozen == [][pc = "ready" => all_sections' = all_sections]_vars

\* a lookup that found its section, in an index of several sections
C7_Witness ==
    /\ pc = "ready"
    /\ Len(all_sections) >= 2
    /\ result.op = "get_section_content"
    /\ result.value # <<>>

\* C8: get_section_content(name) returns the record stored under name when
\* name is a key of the merged index and None otherwise; a name that differs
\* from a key in case, or lacks the document-type prefix, is not found.
C8_Lookup ==
    (pc = "ready" /\ result.op = "get_section_content") =>
        /\ \A n \in 1..Len(all_sections) :
              all_sections[n].k = result.section_name =>
                  result.value = <<all_sections[n].v>>
        /\ (\A n \in 1..Len(all_sections) : all_sections[n].k # result.section_name) =>
              result.value = <<>>

\* a lookup by the lowercase form of a key that is not itself a key
C8_Witness ==
    /\ pc = "ready"
    /\ result.op = "get_section_content"
    /\ \E n \in 1..Len(all_sections) :
          /\ Lower(all_sections[n].k) = result.section_name
          /\ all_sections[n].k # result.section_name
    /\ ~HasKey(all_sections, result.section_name)
    /\ result.value = <<>>

\* a line that starts with seven or more '#', or with a run of '#' that no
\* blank follows
MalformedHeader(line) ==
    LET h == LeadingHashes(line)
    IN  \/ h >= 7
        \/ h >= 1 /\ (Len(line) = h \/ line[h + 1] \notin Whitespace)

LevelsAgree(d) ==
    \A n \in 1..Len(d) :
        /\ d[n].v.level \in 1..6
        /\ d[n].v.level = LeadingHashes(d[n].v.content)

C9_Levels ==
    /\ LevelsAgree(sections)
    /\ LevelsAgree(mcp_sections)
    /\ LevelsAgree(sdk_sections)
    /\ LevelsAgree(all_sections)

C9_MalformedStep ==
    (pc \in {"parse_mcp", "parse_sdk"} /\ pos <= Len(lines) /\ MalformedHeader(lines[pos])) =>
        /\ sections' = sections
        /\ current_section' = current_section
        /\ current_level' = current_level
        /\ current_section # <<>> => current_content' = Append(current_content, lines[pos])

\* C9: every section has a level in 1..6 that is the number of '#' its content
\* starts with; a line of seven or more '#', or with no blank after its '#',
\* opens no section and is appended to the content of the open section.
C9_HeaderLevels == []C9_Levels /\ [][C9_MalformedStep]_vars

\* the index holds a section of level 2 whose content has, after its header,
\* a line of seven '#'
C9_Witness ==
    /\ pc = "ready"
    /\ \E n \in 1..Len(all_sections) :
          /\ all_sections[n].v.level = 2
          /\ \E l \in 2..Len(Split(all_sections[n].v.content, NL)) :
                LeadingHashes(Split(all_sections[n].v.content, NL)[l]) = 7

\* C10: every result of search_by_content_text has match_count >= 1 and a
\* matching_context that is not empty, whatever the keyword (the empty keyword
\* and keywords that hold a newline included).
C10_ContextNonEmpty ==
    IsContentSearch =>
        \A m \in 1..Len(result.value) :
            /\ result.value[m].match_count >= 1
            /\ result.value[m].matching_context # <<>>

====
